---- MODULE Spec2Model ----
(***************************************************************************)
(* The Code Pool Manager of assets/js/code-manager.js (class CodeManager): *)
(* the in-memory list preGeneratedCodes, the two localStorage items it     *)
(* writes, the wall clock, and the one-shot timer of generateInitialCodes. *)
(*                                                                         *)
(* Time is counted in minutes.  Every duration of the source is a whole    *)
(* multiple of 60000 ms (60000, 300000, 1800000, 3600000 and the seed      *)
(* offsets), so one unit stands for 60000 ms of Date.now().                *)
(*                                                                         *)
(* A code string is modelled by the integer it spells: every code string   *)
(* of the source is the decimal form of an integer (seed literals and      *)
(* Math.floor(...).toString()), and the source only compares them with     *)
(* ===.                                                                    *)
(***************************************************************************)
EXTENDS Integers, Sequences, FiniteSets, TLC

VARIABLES
    preGeneratedCodes,  \* this.preGeneratedCodes
    stored,             \* localStorage item 'pregenerated_codes'
    lastUpdate,         \* localStorage item 'codes_last_update' (0: never written)
    now,                \* Date.now()
    pendingInitial,     \* count captured by the setTimeout of generateInitialCodes (0: none)
    last,               \* the last call made on the manager and what it returned
    downloads           \* the calls of DownloaderIntegration.generateViaIframe

vars == <<preGeneratedCodes, stored, lastUpdate, now, pendingInitial, last, downloads>>

---------------------------------------------------------------------------
(* Configuration of the constructor and literals of the methods.           *)

rotationInterval == 60
maxCodes == 20
minActiveCodes == 5
maxAttempts == 100
Stagger == 1
EmergencyTtl == 60
Grace == 5
RetireHorizon == 30
CodeBase == 10000
CodeSpan == 90000

(* Bounds of the exploration.                                              *)
T0 == 100          \* clock value at the first page load
MaxTime == 120     \* the clock stops advancing here
MaxUses == 2       \* the uses of a list add up to this at most
MaxPool == 22      \* no call lets the list grow beyond this length
MaxCalls == 3      \* calls of generateViaIframe that are under way together

Steps == {10}      \* clock advances
PrevAges == {45, 60} \* age of the snapshot a previous session left behind

---------------------------------------------------------------------------
(* JavaScript values.                                                      *)

\* code.lastUsed is undefined until markCodeAsUsed sets it; the only test of
\* it is the truthiness test of cleanExpiredCodes.
NoLastUsed == 0

\* null as an element of an array
JsNull == [null |-> TRUE]

IsNull(x) == DOMAIN x = {"null"}

\* {} as an element of an array: every property of it is undefined
Blank == [blank |-> TRUE]

IsBlank(x) == DOMAIN x = {"blank"}

HasNull(codes) == \E i \in 1..Len(codes) : IsNull(codes[i])

CodeObject(code, generated, expires, status, uses) ==
    [code |-> code, generated |-> generated, expires |-> expires,
     status |-> status, uses |-> uses, lastUsed |-> NoLastUsed]

---------------------------------------------------------------------------
(* JSON texts.  A text is unparsable, or spells an array, or spells an     *)
(* object with or without a "codes" array.  JSON.stringify omits a         *)
(* property whose value is undefined, and JSON.parse leaves an absent      *)
(* property undefined.                                                     *)

NoItem == [json |-> "none"]          \* getItem returns null
JsonInvalid == [json |-> "invalid"]  \* JSON.parse throws SyntaxError
JsonNoCodes == [json |-> "object", hasCodes |-> FALSE, items |-> <<>>]

\* the item of a storage that cannot be used: getItem and setItem throw
Unavailable == [json |-> "unavailable"]

ToJson(c) ==
    IF IsNull(c) \/ IsBlank(c) THEN c
    ELSE IF c.lastUsed = NoLastUsed
         THEN [code |-> c.code, generated |-> c.generated, expires |-> c.expires,
               status |-> c.status, uses |-> c.uses]
         ELSE c

FromJson(j) ==
    IF IsNull(j) \/ IsBlank(j) THEN j
    ELSE IF "lastUsed" \in DOMAIN j
         THEN j
         ELSE [code |-> j.code, generated |-> j.generated, expires |-> j.expires,
               status |-> j.status, uses |-> j.uses, lastUsed |-> NoLastUsed]

JsonItems(codes) == [i \in 1..Len(codes) |-> ToJson(codes[i])]

ParseItems(items) == [i \in 1..Len(items) |-> FromJson(items[i])]

\* JSON.stringify(this.preGeneratedCodes)
Stringify(codes) == [json |-> "array", items |-> JsonItems(codes)]

---------------------------------------------------------------------------
(* Array.prototype methods on index sequences, so that an element keeps    *)
(* its identity (its position in the list) through filter and sort.        *)

Indices(codes) == [i \in 1..Len(codes) |-> i]

\* Array.prototype.sort is stable (ECMAScript 2019): ascending by the sort
\* key of each element (sortKey[i] for the element at position i of the
\* list), equal keys keep their order.
StableSort(idx, sortKey) ==
    LET n == Len(idx)
        key == [p \in 1..n |-> sortKey[idx[p]]]
        rank == [p \in 1..n |->
                    1 + Cardinality({q \in 1..n : \/ key[q] < key[p]
                                                  \/ key[q] = key[p] /\ q < p})]
    IN  [r \in 1..n |-> idx[CHOOSE p \in 1..n : rank[p] = r]]

\* find / some with the callback c => c.code === code: the index of the first
\* match, 0 when there is none; reading .code of null throws.
FindCode(codes, code) ==
    LET Stops(i) == IF IsNull(codes[i]) THEN TRUE ELSE codes[i].code = code
        first == CHOOSE i \in 1..Len(codes) :
                     Stops(i) /\ \A j \in 1..(i - 1) : ~Stops(j)
    IN  IF ~(\E i \in 1..Len(codes) : Stops(i)) THEN [threw |-> FALSE, at |-> 0]
        ELSE IF IsNull(codes[first]) THEN [threw |-> TRUE, at |-> 0]
        ELSE [threw |-> FALSE, at |-> first]

---------------------------------------------------------------------------
(* The manager's methods.  A method takes the manager m (the list and the  *)
(* two storage items) and the clock, and yields the manager after the      *)
(* call, whether an exception left the method, and the value returned.     *)

Manager(codes, item, update) == [codes |-> codes, stored |-> item, lastUpdate |-> update]

Returns(m, ret) == [m |-> m, threw |-> FALSE, ret |-> ret]

\* the value of a call that returns nothing
Undefined == [undefined |-> TRUE]

Throws(m) == [m |-> m, threw |-> TRUE, ret |-> [error |-> "TypeError"]]

\* setItem throws when the storage cannot be used; the exception is caught
savePreGeneratedCodes(m, t) ==
    IF m.stored = Unavailable THEN m
    ELSE [m EXCEPT !.stored = Stringify(m.codes), !.lastUpdate = t]

SeedSet(t) ==
    << CodeObject(45789, t - 5,  t + 55, "active", 0),
       CodeObject(23456, t - 10, t + 50, "active", 0),
       CodeObject(67890, t - 15, t + 45, "active", 0),
       CodeObject(34567, t - 20, t + 40, "active", 0),
       CodeObject(78901, t - 25, t + 35, "active", 0),
       CodeObject(12345, t - 30, t + 30, "active", 0),
       CodeObject(56789, t - 35, t + 25, "active", 0),
       CodeObject(98765, t - 40, t + 20, "active", 0) >>

createInitialCodeSet(m, t) ==
    savePreGeneratedCodes([m EXCEPT !.codes = SeedSet(t)], t)

\* Math.floor(10000 + Math.random() * 90001): the top of the range is one
\* too high.
DrawInclusive(stream, k) == CodeBase + ((stream.start + k * stream.step) % (CodeSpan + 1))

\* The k-th value of Math.floor(10000 + Math.random() * 90000) when the
\* random source is `stream`: Math.random() is in [0, 1), so the value is
\* CodeBase + r with r in 0..CodeSpan-1.
Draw(stream, k) == CodeBase + ((stream.start + k * stream.step) % CodeSpan)

\* What some(c => c.code === code) needs of a list: whether it holds null,
\* and the codes of its elements.
Held(codes) ==
    [nulls |-> HasNull(codes),
     codes |-> {codes[i].code : i \in {j \in 1..Len(codes) : ~IsNull(codes[j])}}]

\* some(c => c.code === code): a list without null holds the code iff the
\* code is one of the codes of its elements.
SomeCode(codes, held, code) ==
    IF held.nulls THEN FindCode(codes, code)
    ELSE [threw |-> FALSE, at |-> IF code \in held.codes THEN 1 ELSE 0]

\* The first attempt in lo..hi whose draw ends the loop early, 0 when there
\* is none.
RECURSIVE FirstAttempt(_, _, _, _, _, _)
FirstAttempt(codes, held, stream, pos, lo, hi) ==
    LET some == SomeCode(codes, held, Draw(stream, pos + lo - 1))
        mid == (lo + hi) \div 2
        early == FirstAttempt(codes, held, stream, pos, lo, mid)
    IN  IF lo = hi THEN (IF some.threw \/ some.at = 0 THEN lo ELSE 0)
        ELSE IF early # 0 THEN early
        ELSE FirstAttempt(codes, held, stream, pos, mid + 1, hi)

\* do { code = draw; attempts++ } while (some(...) && attempts < maxAttempts):
\* the loop ends at the first attempt whose draw is not in the list (or whose
\* test throws), and at attempt maxAttempts whatever was drawn.
\* pos: how many values the random source has given so far.
generateUniqueCode(codes, held, stream, pos) ==
    LET free == FirstAttempt(codes, held, stream, pos, 1, maxAttempts)
        attempts == IF free # 0 THEN free ELSE maxAttempts
        code == Draw(stream, pos + attempts - 1)
    IN  [threw |-> SomeCode(codes, held, code).threw, code |-> code, pos |-> pos + attempts]

\* slice(0, maxCodes) without the sort: the records pushed last are dropped
TrimUnsorted(m) ==
    IF Len(m.codes) > maxCodes
    THEN Returns([m EXCEPT !.codes = SubSeq(m.codes, 1, maxCodes)], Undefined)
    ELSE Returns(m, Undefined)

trimCodeList(m) ==
    IF Len(m.codes) > maxCodes
    THEN IF HasNull(m.codes)
         THEN Throws(m)     \* the comparator reads .expires of null
         ELSE LET sorted == StableSort(Indices(m.codes),
                                         [i \in 1..Len(m.codes) |-> 0 - m.codes[i].expires])
              IN  Returns([m EXCEPT !.codes = [k \in 1..maxCodes |-> m.codes[sorted[k]]]],
                          Undefined)
    ELSE Returns(m, Undefined)

RECURSIVE NewCodes(_, _, _, _, _, _, _, _)
NewCodes(codes, held, count, i, stream, pos, t, newCodes) ==
    IF i >= count THEN [threw |-> FALSE, newCodes |-> newCodes]
    ELSE LET u == generateUniqueCode(codes, held, stream, pos)
         IN  IF u.threw THEN [threw |-> TRUE, newCodes |-> newCodes]
             ELSE NewCodes(codes, held, count, i + 1, stream, u.pos, t,
                           Append(newCodes,
                                  CodeObject(u.code, t + i * Stagger,
                                             t + rotationInterval + i * Stagger,
                                             "active", 0)))

generateNewCodes(m, count, stream, t) ==
    LET loop == NewCodes(m.codes, Held(m.codes), count, 0, stream, 0, t, <<>>)
        pushed == [m EXCEPT !.codes = m.codes \o loop.newCodes]
        trimmed == trimCodeList(pushed)
    IN  IF loop.threw THEN Throws(m)
        ELSE IF trimmed.threw THEN Throws(pushed)
        ELSE Returns(savePreGeneratedCodes(trimmed.m, t), [newCodes |-> loop.newCodes])

\* The indices of the records getActiveCodes returns, in the order it
\* returns them (the list holds no null).
ActiveIndices(codes, t) ==
    StableSort(SelectSeq(Indices(codes),
                         LAMBDA i : codes[i].expires > t /\ codes[i].status = "active"),
               [i \in 1..Len(codes) |-> 0 - codes[i].generated])

getActiveCodes(m, t) ==
    IF HasNull(m.codes) THEN Throws(m)
    ELSE LET idx == ActiveIndices(m.codes, t)
         IN  Returns(m, [codes |-> [k \in 1..Len(idx) |-> m.codes[idx[k]]]])

generateEmergencyCode(m, stream, t) ==
    LET u == generateUniqueCode(m.codes, Held(m.codes), stream, 0)
        emergencyCode == CodeObject(u.code, t, t + EmergencyTtl, "emergency", 1)
        pushed == [m EXCEPT !.codes = Append(m.codes, emergencyCode)]
    IN  IF u.threw THEN Throws(m)
        ELSE Returns(savePreGeneratedCodes(pushed, t),
                     [at |-> Len(pushed.codes), code |-> emergencyCode])

\* The value returned is a reference to an element of the list: `at` is its
\* position, `code` the object as it is when the method returns.
getNextCode(m, stream, t) ==
    IF HasNull(m.codes) THEN Throws(m)
    ELSE LET activeCodes == ActiveIndices(m.codes, t)
             sortedCodes == StableSort(activeCodes, [i \in 1..Len(m.codes) |-> m.codes[i].uses])
             selected == sortedCodes[1]
             used == [m EXCEPT !.codes[selected].uses = @ + 1]
         IN  IF Len(activeCodes) = 0 THEN generateEmergencyCode(m, stream, t)
             ELSE Returns(savePreGeneratedCodes(used, t),
                          [at |-> selected, code |-> used.codes[selected]])

markCodeAsUsed(m, codeString, t) ==
    LET found == FindCode(m.codes, codeString)
        used == [m EXCEPT !.codes[found.at].uses = @ + 1,
                          !.codes[found.at].lastUsed = t]
    IN  IF found.threw THEN Throws(m)
        ELSE IF found.at = 0 THEN Returns(m, Undefined)
        ELSE Returns(savePreGeneratedCodes(used, t), Undefined)

Invalid(reason) == [valid |-> FALSE, reason |-> reason, at |-> 0, timeLeft |-> 0, uses |-> 0]

\* a validation that counts as a use of the code it finds
ValidateCounts(m, codeString, t) ==
    LET found == FindCode(m.codes, codeString)
        used == [m EXCEPT !.codes[found.at].uses = @ + 1]
    IN  IF found.threw THEN Throws(m)
        ELSE IF found.at = 0 THEN Returns(m, Invalid("Code not found"))
        ELSE Returns(savePreGeneratedCodes(used, t),
                     [valid |-> TRUE, reason |-> "", at |-> found.at,
                      timeLeft |-> used.codes[found.at].expires - t,
                      uses |-> used.codes[found.at].uses])

validateCode(m, codeString, t) ==
    LET found == FindCode(m.codes, codeString)
        code == m.codes[found.at]
    IN  IF found.threw THEN Throws(m)
        ELSE IF found.at = 0 THEN Returns(m, Invalid("Code not found"))
        ELSE IF code.expires < t THEN Returns(m, Invalid("Code expired"))
        ELSE IF code.status # "active" /\ code.status # "emergency"
             THEN Returns(m, Invalid("Code inactive"))
        ELSE Returns(m, [valid |-> TRUE, reason |-> "", at |-> found.at,
                         timeLeft |-> code.expires - t, uses |-> code.uses])

\* undefined > now is false, and undefined is falsy
Keep(code, t) ==
    IF IsBlank(code) THEN FALSE
    ELSE code.expires > t \/ (code.lastUsed # NoLastUsed /\ (t - code.lastUsed) < Grace)

\* a loop that splices while it iterates: only the first record that is not
\* kept is removed
CleanFirstExpired(m, t) ==
    IF HasNull(m.codes) THEN Throws(m)
    ELSE LET gone == {i \in 1..Len(m.codes) : ~Keep(m.codes[i], t)}
             first == CHOOSE i \in gone : \A j \in gone : i <= j
             kept == [m EXCEPT !.codes = SubSeq(@, 1, first - 1) \o SubSeq(@, first + 1, Len(@))]
         IN  IF gone = {} THEN Returns(m, [cleanedCount |-> 0])
             ELSE Returns(savePreGeneratedCodes(kept, t), [cleanedCount |-> 1])

cleanExpiredCodes(m, t) ==
    IF HasNull(m.codes) THEN Throws(m)    \* the filter callback reads .expires of null
    ELSE LET kept == [m EXCEPT !.codes = SelectSeq(m.codes, LAMBDA c : Keep(c, t))]
             cleanedCount == Len(m.codes) - Len(kept.codes)
         IN  Returns(IF cleanedCount > 0 THEN savePreGeneratedCodes(kept, t) ELSE kept,
                     [cleanedCount |-> cleanedCount])

\* the 30-minute horizon left out: only a code that has expired is retired
RetireExpiredOnly(code, t) ==
    IF code.expires < t /\ code.status = "active"
    THEN [code EXCEPT !.status = "retiring"]
    ELSE code

\* the comparison of the retirement test reversed
RetireReversed(code, t) ==
    IF code.expires > t + RetireHorizon /\ code.status = "active"
    THEN [code EXCEPT !.status = "retiring"]
    ELSE code

Retire(code, t) ==
    IF code.expires < t + RetireHorizon /\ code.status = "active"
    THEN [code EXCEPT !.status = "retiring"]
    ELSE code

\* generates the deficit when fewer than minActiveCodes codes are active
\* (rotateActiveCodes 261-266, maintainCodePool 283-289)
Replenish(m, stream, t) ==
    LET activeCodes == ActiveIndices(m.codes, t)
        needed == minActiveCodes - Len(activeCodes)
    IN  IF HasNull(m.codes) THEN Throws(m)
        ELSE IF Len(activeCodes) < minActiveCodes
             THEN generateNewCodes(m, needed, stream, t)
             ELSE Returns(m, Undefined)

rotateActiveCodes(m, stream, t) ==
    LET cleaned == cleanExpiredCodes(m, t)
        filled == Replenish(cleaned.m, stream, t)
        retired == [filled.m EXCEPT !.codes = [i \in 1..Len(@) |-> Retire(@[i], t)]]
    IN  IF cleaned.threw THEN Throws(m)
        ELSE IF filled.threw THEN Throws(filled.m)
        ELSE Returns(savePreGeneratedCodes(retired, t), Undefined)

maintainCodePool(m, stream, t) ==
    LET filled == Replenish(m, stream, t)
    IN  IF filled.threw THEN filled ELSE Returns(filled.m, Undefined)

\* JSON.parse of the item, then cleanExpiredCodes; any exception is caught
\* and the seed set is created.
loadPreGeneratedCodes(m, t) ==
    LET parsed == [m EXCEPT !.codes = ParseItems(m.stored.items)]
        cleaned == cleanExpiredCodes(parsed, t)
    IN  IF m.stored.json = "none" THEN createInitialCodeSet(m, t)
        ELSE IF m.stored.json # "array" THEN createInitialCodeSet(m, t)
        ELSE IF cleaned.threw THEN createInitialCodeSet(cleaned.m, t)
        ELSE cleaned.m

\* the count the setTimeout callback of generateInitialCodes will generate
\* (0: no timer is set)
generateInitialCodes(m, t) ==
    LET activeCodes == ActiveIndices(m.codes, t)
    IN  IF Len(activeCodes) < minActiveCodes
        THEN minActiveCodes - Len(activeCodes)
        ELSE 0

exportCodes(m, t) ==
    [json |-> "object", hasCodes |-> TRUE, items |-> JsonItems(m.codes)]

importCodes(m, jsonData, t) ==
    LET replaced == [m EXCEPT !.codes = ParseItems(jsonData.items)]
        cleaned == cleanExpiredCodes(replaced, t)
    IN  IF jsonData.json = "invalid"
        THEN Returns(m, [success |-> FALSE, error |-> "SyntaxError", imported |-> 0])
        ELSE IF jsonData.json = "object" /\ jsonData.hasCodes
        THEN IF cleaned.threw
             THEN Returns(replaced, [success |-> FALSE, error |-> "TypeError", imported |-> 0])
             ELSE Returns(savePreGeneratedCodes(cleaned.m, t),
                          [success |-> TRUE, error |-> "", imported |-> Len(jsonData.items)])
        ELSE Returns(m, [success |-> FALSE, error |-> "Invalid data format", imported |-> 0])

resetCodes(m, t) == createInitialCodeSet([m EXCEPT !.codes = <<>>], t)

\* localStorage.getItem throws when the storage cannot be used
ThrowsStorage(m) == [m |-> m, threw |-> TRUE, ret |-> [error |-> "DOMException"]]

\* the time new Date(...) holds: parseInt(getItem(...) || '0') + rotationInterval
getNextRotationTime(m) == m.lastUpdate + rotationInterval

RECURSIVE SumUses(_)
SumUses(codes) ==
    IF codes = <<>> THEN 0 ELSE Head(codes).uses + SumUses(Tail(codes))

\* averageUses is given in hundredths: Math.round(averageUses * 100)
\* lastUpdate 0 stands for 'Never'
getCodeStats(m, t) ==
    IF HasNull(m.codes) THEN Throws(m)   \* getActiveCodes reads .expires of null
    ELSE IF m.stored = Unavailable THEN ThrowsStorage(m)
    ELSE LET activeCodes == ActiveIndices(m.codes, t)
             expiringSoon == SelectSeq(activeCodes,
                                       LAMBDA i : m.codes[i].expires < t + RetireHorizon)
             totalUses == SumUses(m.codes)
             n == Len(m.codes)
         IN  Returns(m, [totalCodes |-> n,
                         activeCodes |-> Len(activeCodes),
                         expiringSoon |-> Len(expiringSoon),
                         totalUses |-> totalUses,
                         averageUses |-> IF n > 0 THEN (200 * totalUses + n) \div (2 * n)
                                         ELSE 0,
                         lastUpdate |-> m.lastUpdate,
                         nextRotation |-> getNextRotationTime(m)])

---------------------------------------------------------------------------
(* DownloaderIntegration.generateViaIframe of                              *)
(* assets/js/downloader-integration.js.  One call is: the nodes it has     *)
(* appended to document.body that are still children of it, the promise it *)
(* returned with the value or reason it settled with, its 10 s timer, how  *)
(* often removeChild was called on each node, how often resolve or reject  *)
(* was called, and how many exceptions left a callback uncaught.           *)

Calls == 1..MaxCalls

NotCalled ==
    [body |-> {}, promise |-> "none", settledWith |-> "", timer |-> "none",
     removeChildCalls |-> [iframe |-> 0, form |-> 0], settleCalls |-> 0, uncaught |-> 0]

\* document.body.removeChild(node) throws NotFoundError when node is not a
\* child of document.body
removeChild(c, node) ==
    [threw |-> node \notin c.body,
     c |-> [c EXCEPT !.body = @ \ {node}, !.removeChildCalls[node] = @ + 1]]

\* removeChild(iframe); removeChild(form)
Cleanup(c) ==
    LET first == removeChild(c, "iframe")
    IN  IF first.threw THEN first ELSE removeChild(first.c, "form")

\* resolve(value) or reject(reason): a promise that has settled stays as it is
Settle(c, state, with) ==
    IF c.promise = "pending"
    THEN [c EXCEPT !.promise = state, !.settledWith = with, !.settleCalls = @ + 1]
    ELSE [c EXCEPT !.settleCalls = @ + 1]

\* the executor: both nodes appended, the form submitted, onload set, the
\* timer started
generateViaIframe(c) ==
    [c EXCEPT !.body = {"iframe", "form"}, !.promise = "pending", !.timer = "armed"]

\* what the load callback finds in the frame: a page with a code, a page
\* without one, or a document of another origin that it may not read
Pages == {"code", "nocode", "blocked"}

\* iframe.onload: try / catch, then the finally block
OnLoad(c, page) ==
    LET settled == CASE page = "code"    -> Settle(c, "fulfilled", "iframe")
                     [] page = "nocode"  -> Settle(c, "rejected", "No code found in iframe")
                     [] page = "blocked" -> Settle(c, "fulfilled", "iframe-fallback")
        cleaned == Cleanup(settled)
    IN  IF cleaned.threw THEN [cleaned.c EXCEPT !.uncaught = @ + 1] ELSE cleaned.c

\* the setTimeout callback: it is never cancelled
OnTimeout(c) ==
    LET cleaned == Cleanup([c EXCEPT !.timer = "fired"])
    IN  IF cleaned.threw THEN [cleaned.c EXCEPT !.uncaught = @ + 1]
        ELSE Settle(cleaned.c, "rejected", "Iframe method timeout")

---------------------------------------------------------------------------
(* The environment: what the random source yields, the arguments callers   *)
(* pass, the texts handed to importCodes, the item a page load finds.      *)

\* Math.random() sequences.  Counting counts up from the top of the range
\* (99999, 10000, 10001, ...), so a later call draws codes the list already
\* holds and retries; Repeating keeps yielding 45789, the first seed code.
Counting == [start |-> 89999, step |-> 1]

Repeating == [start |-> 35789, step |-> 0]

Streams == {Counting}

\* code strings passed to markCodeAsUsed and validateCode: a seed code, and a
\* code nothing generates
ArgCodes == {45789, 11111}

\* a backup text with a null appended to at most one of its codes
Damaged(text) ==
    [text EXCEPT !.items = SubSeq(@, 1, IF Len(@) > 0 THEN 1 ELSE 0) \o <<JsNull>>]

\* a backup text of maxCodes + 1 codes that are not handed out any more
Large(t) ==
    [json |-> "object", hasCodes |-> TRUE,
     items |-> JsonItems([i \in 1..(maxCodes + 1) |->
                             CodeObject(20000 + i, t - i, t + i, "retiring", 0)])]

\* a backup text of maxCodes codes that are not handed out any more and
\* expire later than any code generated within the next hour
Lasting(t) ==
    [json |-> "object", hasCodes |-> TRUE,
     items |-> JsonItems([i \in 1..maxCodes |->
                             CodeObject(30000 + i, t - i, t + 2 * rotationInterval + i,
                                        "retiring", 0)])]

\* a text whose codes array holds an object that is no code record: {}
Malformed == [json |-> "object", hasCodes |-> TRUE, items |-> <<Blank>>]

\* a backup text edited by hand: its one code is generated after it expires
Inverted(t) ==
    [json |-> "object", hasCodes |-> TRUE,
     items |-> JsonItems(<< CodeObject(40000, t + 30, t + 20, "active", 0) >>)]

\* the texts a debugging session hands to importCodes
BackupTexts(t) == { Large(t), Inverted(t) }

ImportTexts(m, t) ==
    { JsonInvalid, JsonNoCodes, exportCodes(m, t), Damaged(exportCodes(m, t)), Large(t),
      Lasting(t), Malformed }

PrevSessions ==
    { [item |-> NoItem, update |-> 0], [item |-> JsonInvalid, update |-> 0],
      [item |-> Unavailable, update |-> 0],
      [item |-> [json |-> "array", items |-> <<Blank>>], update |-> T0 - 45] }
    \cup { [item |-> Stringify(SeedSet(T0 - a)), update |-> T0 - a] : a \in PrevAges }

---------------------------------------------------------------------------
(* The state machine.                                                      *)

This == Manager(preGeneratedCodes, stored, lastUpdate)

RECURSIVE TotalUses(_)
TotalUses(codes) ==
    IF codes = <<>> THEN 0
    ELSE (IF IsNull(Head(codes)) THEN 0 ELSE Head(codes).uses) + TotalUses(Tail(codes))

\* the bounds of the exploration, on the list a call leaves
WithinBounds(codes) == Len(codes) <= MaxPool /\ TotalUses(codes) <= MaxUses

Becomes(m) ==
    /\ preGeneratedCodes' = m.codes
    /\ stored' = m.stored
    /\ lastUpdate' = m.lastUpdate

Called(op, arg, r) ==
    /\ Becomes(r.m)
    /\ last' = [op |-> op, arg |-> arg, threw |-> r.threw, ret |-> r.ret]
    /\ UNCHANGED downloads

\* a call without argument
NoArg == [none |-> TRUE]

\* constructor / init: load, set the timers, schedule the initial generation
Constructed(item, update, t) ==
    LET m == loadPreGeneratedCodes(Manager(<<>>, item, update), t)
    IN  [m |-> m, pending |-> generateInitialCodes(m, t)]

Init ==
    \E prev \in PrevSessions :
        LET c == Constructed(prev.item, prev.update, T0)
        IN  /\ preGeneratedCodes = c.m.codes
            /\ stored = c.m.stored
            /\ lastUpdate = c.m.lastUpdate
            /\ now = T0
            /\ pendingInitial = c.pending
            /\ last = [op |-> "constructor", arg |-> [item |-> prev.item],
                       threw |-> FALSE, ret |-> Undefined]
            /\ downloads = [k \in Calls |-> NotCalled]

\* the setTimeout callback of generateInitialCodes (2 s after construction)
InitialGeneration(stream) ==
    LET r == generateNewCodes(This, pendingInitial, stream, now)
    IN  /\ pendingInitial > 0
        /\ Called("generateNewCodes", [count |-> pendingInitial], r)
        /\ pendingInitial' = 0
        /\ UNCHANGED now

GetNextCode(stream) ==
    LET r == getNextCode(This, stream, now)
    IN  /\ WithinBounds(r.m.codes)
        /\ Called("getNextCode", NoArg, r)
        /\ UNCHANGED <<now, pendingInitial>>

MarkCodeAsUsed ==
    \E codeString \in ArgCodes :
        LET r == markCodeAsUsed(This, codeString, now)
        IN  /\ WithinBounds(r.m.codes)
            /\ Called("markCodeAsUsed", [code |-> codeString], r)
            /\ UNCHANGED <<now, pendingInitial>>

ValidateCode ==
    \E codeString \in ArgCodes :
        LET r == validateCode(This, codeString, now)
        IN  /\ Called("validateCode", [code |-> codeString], r)
            /\ UNCHANGED <<now, pendingInitial>>

GetActiveCodes ==
    LET r == getActiveCodes(This, now)
    IN  /\ Called("getActiveCodes", NoArg, r)
        /\ UNCHANGED <<now, pendingInitial>>

\* the hourly interval, or forceRotation
RotateActiveCodes(stream) ==
    LET r == rotateActiveCodes(This, stream, now)
    IN  /\ Called("rotateActiveCodes", NoArg, r)
        /\ UNCHANGED <<now, pendingInitial>>

\* the 10-minute interval
MaintainCodePool(stream) ==
    LET r == maintainCodePool(This, stream, now)
    IN  /\ Called("maintainCodePool", NoArg, r)
        /\ UNCHANGED <<now, pendingInitial>>

\* the 5-minute interval
CleanExpiredCodes ==
    LET r == cleanExpiredCodes(This, now)
    IN  /\ Called("cleanExpiredCodes", NoArg, r)
        /\ UNCHANGED <<now, pendingInitial>>

GetCodeStats ==
    LET r == getCodeStats(This, now)
    IN  /\ Called("getCodeStats", NoArg, r)
        /\ UNCHANGED <<now, pendingInitial>>

ImportCodes ==
    \E jsonData \in ImportTexts(This, now) :
        LET r == importCodes(This, jsonData, now)
        IN  /\ Called("importCodes", [text |-> jsonData], r)
            /\ UNCHANGED <<now, pendingInitial>>

\* The clock advances.  The 2 s timer of generateInitialCodes fires before a
\* minute has passed.
Tick ==
    \E dt \in Steps :
        /\ pendingInitial = 0
        /\ now + dt <= MaxTime
        /\ now' = now + dt
        /\ last' = [op |-> "tick", arg |-> [dt |-> dt], threw |-> FALSE, ret |-> Undefined]
        /\ UNCHANGED <<preGeneratedCodes, stored, lastUpdate, pendingInitial, downloads>>

Next ==
    \/ \E stream \in Streams : InitialGeneration(stream)
    \/ \E stream \in Streams : GetNextCode(stream)
    \/ MarkCodeAsUsed
    \/ ValidateCode
    \/ GetActiveCodes
    \/ \E stream \in Streams : RotateActiveCodes(stream)
    \/ \E stream \in Streams : MaintainCodePool(stream)
    \/ CleanExpiredCodes
    \/ GetCodeStats
    \/ ImportCodes
    \/ Tick

Spec == Init /\ [][Next]_vars

\* The timers and the callers of the page (nothing is imported) when the
\* random source keeps yielding one value.
NextRepeating ==
    \/ InitialGeneration(Repeating)
    \/ GetNextCode(Repeating)
    \/ MarkCodeAsUsed
    \/ ValidateCode
    \/ GetActiveCodes
    \/ RotateActiveCodes(Repeating)
    \/ MaintainCodePool(Repeating)
    \/ CleanExpiredCodes
    \/ Tick

SpecRepeating == Init /\ [][NextRepeating]_vars

\* codeManager.trimCodeList() called from outside the class
TrimCodeList ==
    LET r == trimCodeList(This)
    IN  /\ Called("trimCodeList", NoArg, r)
        /\ UNCHANGED <<now, pendingInitial>>

\* codeManager.resetCodes(), for debugging
ResetCodes ==
    LET r == Returns(resetCodes(This, now), Undefined)
    IN  /\ Called("resetCodes", NoArg, r)
        /\ UNCHANGED <<now, pendingInitial>>

ImportBackup ==
    \E jsonData \in BackupTexts(now) :
        LET r == importCodes(This, jsonData, now)
        IN  /\ Called("importCodes", [text |-> jsonData], r)
            /\ UNCHANGED <<now, pendingInitial>>

\* A debugging session: the methods called by hand on the global codeManager
\* besides the calls of the page.
NextManual ==
    \/ InitialGeneration(Counting)
    \/ GetNextCode(Counting)
    \/ CleanExpiredCodes
    \/ ImportBackup
    \/ TrimCodeList
    \/ ResetCodes
    \/ Tick

SpecManual == Init /\ [][NextManual]_vars

\* generateCode() starts its first method
GenerateViaIframe ==
    \E k \in Calls :
        /\ downloads[k].promise = "none"
        /\ downloads' = [downloads EXCEPT ![k] = generateViaIframe(@)]
        /\ UNCHANGED <<preGeneratedCodes, stored, lastUpdate, now, pendingInitial, last>>

\* the load event of a frame that is in the document
IframeLoad ==
    \E k \in Calls, page \in Pages :
        /\ "iframe" \in downloads[k].body
        /\ downloads' = [downloads EXCEPT ![k] = OnLoad(@, page)]
        /\ UNCHANGED <<preGeneratedCodes, stored, lastUpdate, now, pendingInitial, last>>

\* 10 s after the call
IframeTimeout ==
    \E k \in Calls :
        /\ downloads[k].timer = "armed"
        /\ downloads' = [downloads EXCEPT ![k] = OnTimeout(@)]
        /\ UNCHANGED <<preGeneratedCodes, stored, lastUpdate, now, pendingInitial, last>>

\* the page of a first visit
InitDownloader == Init /\ last.arg.item = NoItem

NextDownloader ==
    \/ GenerateViaIframe
    \/ IframeLoad
    \/ IframeTimeout

SpecDownloader == InitDownloader /\ [][NextDownloader]_vars

---------------------------------------------------------------------------
(* Vocabulary of the properties.                                           *)

\* the positions of the list that hold a code object
Records(codes) == {i \in 1..Len(codes) : ~IsNull(codes[i])}

\* the code objects that are active and not expired at t
Eligible(codes, t) ==
    {i \in Records(codes) : codes[i].expires > t /\ codes[i].status = "active"}

\* the code objects a holder can still use at t
Usable(codes, t) ==
    {i \in Records(codes) :
        codes[i].expires > t /\ codes[i].status \in {"active", "emergency"}}

\* the positions whose code string is codeString
Matching(codes, codeString) == {i \in Records(codes) : codes[i].code = codeString}

\* the object a lookup by code string yields: the first match
Known(codes, codeString) ==
    CHOOSE i \in Matching(codes, codeString) : \A j \in Matching(codes, codeString) : i <= j

Just(op) == last.op = op

---------------------------------------------------------------------------
(* C1: getNextCode always returns a code record of the list and never      *)
(* throws, in every reachable state and at every clock value.              *)
C1_GetNextCodeAlwaysReturns ==
    Just("getNextCode") =>
        /\ ~last.threw
        /\ last.ret.at \in 1..Len(preGeneratedCodes)
        /\ preGeneratedCodes[last.ret.at] = last.ret.code

(* C2: right after rotateActiveCodes completes, at least minActiveCodes    *)
(* records are active and not expired.                                     *)
C2_RotateLeavesMinActive ==
    (Just("rotateActiveCodes") /\ ~last.threw) =>
        Cardinality(Eligible(preGeneratedCodes, now)) >= minActiveCodes

(* C3: the list never holds more than maxCodes records.                    *)
C3_PoolNeverExceedsMax == Len(preGeneratedCodes) <= maxCodes

(* C4: getNextCode creates an emergency record only when the list holds no *)
(* usable record (not expired, active or emergency) at the call.  The      *)
(* emergency record is appended, so the list at the call is what precedes  *)
(* it.                                                                     *)
C4_EmergencyOnlyWhenNothingUsable ==
    (Just("getNextCode") /\ ~last.threw /\ last.ret.code.status = "emergency") =>
        Usable(SubSeq(preGeneratedCodes, 1, last.ret.at - 1), now) = {}

(* C5: the answer of validateCode is Expired for a record whose expires    *)
(* equals now, and NotFound for a code string no record carries.           *)
C5_ValidateAtExpiryInstant ==
    (Just("validateCode") /\ ~last.threw) =>
        /\ Matching(preGeneratedCodes, last.arg.code) = {}
               => last.ret.reason = "Code not found"
        /\ (/\ Matching(preGeneratedCodes, last.arg.code) # {}
            /\ preGeneratedCodes[Known(preGeneratedCodes, last.arg.code)].expires = now)
               => last.ret.reason = "Code expired"

(* C6: the answer of validateCode is decided in the order NotFound, then   *)
(* Expired (expires <= now, whatever the status), then Inactive (status    *)
(* neither active nor emergency); on success it carries timeLeft =         *)
(* expires - now and the record's uses; the call changes neither the list  *)
(* nor the stored items.                                                   *)
C6_ValidateOrderAndFrame ==
    [][ (last'.op = "validateCode" /\ ~last'.threw) =>
            /\ UNCHANGED <<preGeneratedCodes, stored, lastUpdate>>
            /\ LET codes == preGeneratedCodes
                   code == codes[Known(codes, last'.arg.code)]
                   answer == last'.ret
               IN  IF Matching(codes, last'.arg.code) = {} THEN answer.reason = "Code not found"
                   ELSE IF code.expires <= now THEN answer.reason = "Code expired"
                   ELSE IF code.status \notin {"active", "emergency"}
                        THEN answer.reason = "Code inactive"
                   ELSE /\ answer.valid
                        /\ answer.timeLeft = code.expires - now
                        /\ answer.uses = code.uses
      ]_vars

(* C7: the answer of validateCode for a record in status retiring that has *)
(* not expired is that it is valid.                                        *)
C7_RetiringStillValid ==
    LET codes == preGeneratedCodes
        code == codes[Known(codes, last.arg.code)]
    IN  (/\ Just("validateCode")
         /\ ~last.threw
         /\ Matching(codes, last.arg.code) # {}
         /\ code.status = "retiring"
         /\ code.expires > now)
        => last.ret.valid

(* C8: when some record is active and not expired, getNextCode returns the *)
(* one with the fewest uses among them, the most recently generated among  *)
(* equals, adds exactly 1 to its uses, changes nothing else in the list,   *)
(* and persists.                                                           *)
C8_GetNextCodePicksLeastUsed ==
    [][ (last'.op = "getNextCode" /\ Eligible(preGeneratedCodes, now) # {}) =>
            /\ ~last'.threw
            /\ LET k == last'.ret.at
                   codes == preGeneratedCodes
               IN  /\ k \in Eligible(codes, now)
                   /\ \A j \in Eligible(codes, now) :
                          \/ codes[k].uses < codes[j].uses
                          \/ /\ codes[k].uses = codes[j].uses
                             /\ codes[k].generated >= codes[j].generated
                   /\ preGeneratedCodes' = [codes EXCEPT ![k].uses = @ + 1]
                   /\ last'.ret.code = preGeneratedCodes'[k]
            /\ stored' = Stringify(preGeneratedCodes')
      ]_vars

(* C9: when no record is active and not expired (the empty list included), *)
(* getNextCode returns a new record with status emergency, uses 1 and      *)
(* expires = now + 1 hour, appended to the otherwise unchanged list.       *)
C9_EmergencyRecordAppended ==
    [][ (last'.op = "getNextCode" /\ Eligible(preGeneratedCodes, now) = {}) =>
            /\ ~last'.threw
            /\ last'.ret.code.status = "emergency"
            /\ last'.ret.code.uses = 1
            /\ last'.ret.code.expires = now + EmergencyTtl
            /\ preGeneratedCodes' = Append(preGeneratedCodes, last'.ret.code)
      ]_vars

(* C10: getActiveCodes returns exactly the records that are active and not *)
(* expired, newest generated first, and changes neither the list nor the   *)
(* stored items.                                                           *)
C10_GetActiveCodesPureQuery ==
    [][ (last'.op = "getActiveCodes") =>
            /\ UNCHANGED <<preGeneratedCodes, stored, lastUpdate>>
            /\ ~last'.threw
            /\ LET ret == last'.ret.codes
                   codes == preGeneratedCodes
               IN  /\ Len(ret) = Cardinality(Eligible(codes, now))
                   /\ \A i \in Eligible(codes, now) : \E k \in 1..Len(ret) : ret[k] = codes[i]
                   /\ \A k \in 1..Len(ret) : \E i \in Eligible(codes, now) : ret[k] = codes[i]
                   /\ \A k \in 1..(Len(ret) - 1) : ret[k].generated >= ret[k + 1].generated
      ]_vars

(* C11: markCodeAsUsed on a code string some record carries adds 1 to the  *)
(* uses of that record (the first that matches), sets its lastUsed to now, *)
(* changes no other record and persists; on a code string no record        *)
(* carries it changes neither the list nor the stored items; in both cases *)
(* it raises no error.                                                     *)
C11_MarkUsedOrNoOp ==
    [][ (last'.op = "markCodeAsUsed") =>
            /\ ~last'.threw
            /\ LET codes == preGeneratedCodes
                   k == Known(codes, last'.arg.code)
               IN  IF Matching(codes, last'.arg.code) # {}
                   THEN /\ preGeneratedCodes' = [codes EXCEPT ![k].uses = @ + 1,
                                                              ![k].lastUsed = now]
                        /\ stored' = Stringify(preGeneratedCodes')
                   ELSE UNCHANGED <<preGeneratedCodes, stored, lastUpdate>>
      ]_vars

(* C12: a firing of the maintenance timer leaves at least minActiveCodes   *)
(* records active and not expired, whatever the calls and the time that    *)
(* went before it, so that a count below the minimum lasts no longer than  *)
(* one maintenance period.                                                 *)
C12_MaintenanceRestoresMinimum ==
    (Just("maintainCodePool") /\ ~last.threw) =>
        Cardinality(Eligible(preGeneratedCodes, now)) >= minActiveCodes

\* what a call of method op with argument arg does to manager m
Effect(op, arg, m, stream, t) ==
    CASE op = "generateNewCodes"  -> generateNewCodes(m, arg.count, stream, t)
      [] op = "getNextCode"       -> getNextCode(m, stream, t)
      [] op = "markCodeAsUsed"    -> markCodeAsUsed(m, arg.code, t)
      [] op = "validateCode"      -> validateCode(m, arg.code, t)
      [] op = "getActiveCodes"    -> getActiveCodes(m, t)
      [] op = "rotateActiveCodes" -> rotateActiveCodes(m, stream, t)
      [] op = "maintainCodePool"  -> maintainCodePool(m, stream, t)
      [] op = "cleanExpiredCodes" -> cleanExpiredCodes(m, t)
      [] op = "getCodeStats"      -> getCodeStats(m, t)
      [] op = "importCodes"       -> importCodes(m, arg.text, t)

(* C13: a storage that cannot be read or written changes nothing for the   *)
(* caller: construction leaves the seed set in the list, and every call    *)
(* returns or throws exactly what it does, and leaves the list exactly as  *)
(* it does, when the storage works.                                        *)
C13_StorageFailureAbsorbed ==
    /\ (stored = Unavailable) => (preGeneratedCodes = SeedSet(now) /\ ~last.threw)
    /\ [][ (stored = Unavailable /\ last'.op # "tick") =>
               \E stream \in Streams :
                   LET works == Effect(last'.op, last'.arg,
                                       Manager(preGeneratedCodes, NoItem, 0), stream, now)
                   IN  /\ last'.threw = works.threw
                       /\ last'.ret = works.ret
                       /\ preGeneratedCodes' = works.m.codes
         ]_vars

\* the stored item spells a list of code objects
WellFormedList(item) ==
    /\ item.json = "array"
    /\ \A i \in 1..Len(item.items) : ~IsNull(item.items[i]) /\ ~IsBlank(item.items[i])

(* C14: construction on a stored item that is absent or does not spell a   *)
(* list of code objects leaves exactly the seed set in the list (8         *)
(* records, active, uses 0, expires > now > generated) and stores it, and  *)
(* raises no error; on a stored list of code objects it leaves the records *)
(* of that list, those that have not expired, and not the seed set.        *)
C14_BootstrapSeedsOrLoads ==
    Just("constructor") =>
        LET item == last.arg.item
            codes == preGeneratedCodes
        IN  /\ ~last.threw
            /\ IF WellFormedList(item)
               THEN LET loaded == ParseItems(item.items)
                    IN  codes = SelectSeq(loaded, LAMBDA c : c.expires > now)
               ELSE /\ codes = SeedSet(now)
                    /\ Len(codes) = 8
                    /\ \A i \in 1..Len(codes) :
                           /\ codes[i].status = "active" /\ codes[i].uses = 0
                           /\ codes[i].expires > now /\ now > codes[i].generated
                    /\ item # Unavailable => stored = Stringify(codes)

(* C15: importCodes of the text exportCodes has just produced, at the same *)
(* clock value, succeeds and leaves the list as one cleanExpiredCodes pass *)
(* leaves it: the same records with the same fields, in the same order.    *)
C15_ExportImportRoundTrip ==
    [][ (last'.op = "importCodes" /\ last'.arg.text = exportCodes(This, now)) =>
            /\ ~last'.threw
            /\ last'.ret.success
            /\ last'.ret.imported = Len(preGeneratedCodes)
            /\ ~HasNull(preGeneratedCodes)
            /\ preGeneratedCodes' = SelectSeq(preGeneratedCodes, LAMBDA c : Keep(c, now))
      ]_vars

\* the text spells an object whose codes array holds code objects only
WellFormedText(text) ==
    IF text.json = "object"
    THEN /\ text.hasCodes
         /\ \A i \in 1..Len(text.items) : ~IsNull(text.items[i]) /\ ~IsBlank(text.items[i])
    ELSE FALSE

(* C16: importCodes reports success exactly for a text that spells a list  *)
(* of code objects; for a text that is not JSON, has no codes array, or    *)
(* whose codes array holds anything that is not a code object, it returns  *)
(* the failure result.                                                     *)
C16_ImportRejectsMalformed ==
    Just("importCodes") =>
        /\ ~last.threw
        /\ last.ret.success <=> WellFormedText(last.arg.text)

\* the code strings the records of the list carry
CodesOf(codes) == {codes[i].code : i \in Records(codes)}

\* the random source yields maxAttempts values in a row that the list holds,
\* somewhere among the first `draws` values
Exhausted(stream, codes, draws) ==
    \E p \in 0..draws :
        \A k \in p..(p + maxAttempts - 1) : Draw(stream, k) \in CodesOf(codes)

(* C17: generateNewCodes(count) returns exactly count new records, all     *)
(* active with uses 0, whose code strings differ from each other and from  *)
(* every code string the list held when the call started, unless           *)
(* maxAttempts draws in a row collided.                                    *)
C17_GeneratedCodesDistinct ==
    [][ (last'.op = "generateNewCodes" /\ ~last'.threw) =>
            LET new == last'.ret.newCodes
                count == last'.arg.count
            IN  /\ Len(new) = count
                /\ \A i \in 1..Len(new) : new[i].status = "active" /\ new[i].uses = 0
                /\ \A stream \in {Counting, Repeating} :
                       generateNewCodes(This, count, stream, now).ret = last'.ret =>
                           \/ Exhausted(stream, preGeneratedCodes, count * maxAttempts)
                           \/ /\ \A i, j \in 1..Len(new) : new[i].code = new[j].code => i = j
                              /\ \A i \in 1..Len(new) : new[i].code \notin CodesOf(preGeneratedCodes)
      ]_vars

\* Number.prototype.toString of a non-negative integer: its decimal digits
RECURSIVE Decimal(_)
Decimal(n) == IF n < 10 THEN <<n>> ELSE Append(Decimal(n \div 10), n % 10)

(* C18: the code string of every record the manager creates (seed,         *)
(* generated, emergency) consists of exactly 5 decimal digits and spells a *)
(* number from 10000 to 99999; the records of the list are such records or *)
(* imported copies of them.                                                *)
C18_CodesAreFiveDigits ==
    \A i \in Records(preGeneratedCodes) :
        LET code == preGeneratedCodes[i].code
        IN  /\ Len(Decimal(code)) = 5
            /\ 10000 <= code /\ code <= 99999

\* both ends of the range have been drawn: 99999 and 10000 were generated
C18_Witness ==
    /\ last.op \in {"generateNewCodes", "getNextCode", "maintainCodePool", "rotateActiveCodes"}
    /\ ~last.threw
    /\ {99999, 10000} \subseteq CodesOf(preGeneratedCodes)

\* how often record x occurs in the list
Count(codes, x) == Cardinality({i \in 1..Len(codes) : codes[i] = x})

\* `kept` is what trimCodeList may leave of the list `before`
TrimmedFrom(before, kept) ==
    /\ Len(kept) <= maxCodes
    /\ IF Len(before) <= maxCodes THEN kept = before
       ELSE /\ Len(kept) = maxCodes
            /\ \A i \in 1..Len(kept) : Count(kept, kept[i]) <= Count(before, kept[i])
            /\ \A i \in 1..Len(before) :
                   (\E k \in 1..Len(kept) : before[i].expires > kept[k].expires)
                       => Count(kept, before[i]) = Count(before, before[i])

(* C19: trimCodeList, which generateNewCodes (its one caller) calls on the *)
(* list with the new records pushed, leaves at most maxCodes records; a    *)
(* list of at most maxCodes records is left as it is; of a longer list     *)
(* exactly maxCodes records survive, each a record of the list, and every  *)
(* record that expires later than some survivor survives.                  *)
C19_TrimKeepsLatestExpiry ==
    [][ (last'.op = "generateNewCodes" /\ ~last'.threw) =>
            TrimmedFrom(preGeneratedCodes \o last'.ret.newCodes, preGeneratedCodes')
      ]_vars

\* generateNewCodes has pushed onto the 21 records of an imported backup, and
\* the record of the backup that expires first is gone while the one that
\* expires last and the new records are in the list
C19_Witness ==
    /\ Just("generateNewCodes") /\ ~last.threw
    /\ Len(preGeneratedCodes) = maxCodes
    /\ 20000 + maxCodes + 1 \in CodesOf(preGeneratedCodes)
    /\ 20001 \notin CodesOf(preGeneratedCodes)
    /\ \A i \in 1..Len(last.ret.newCodes) : Count(preGeneratedCodes, last.ret.newCodes[i]) = 1

C21_PruneIdempotent ==
    LET first == cleanExpiredCodes(This, now)
        second == cleanExpiredCodes(first.m, now)
    IN  ~first.threw =>
            /\ ~second.threw
            /\ second.ret.cleanedCount = 0
            /\ second.m = first.m

\* cleanExpiredCodes has just removed more than one record, and a second call
\* now removes nothing
C21_Witness ==
    /\ Just("cleanExpiredCodes") /\ ~last.threw
    /\ last.ret.cleanedCount > 1
    /\ cleanExpiredCodes(This, now).ret.cleanedCount = 0

\* record y of the list a call leaves is a record the call has generated at t
Fresh(y, t) ==
    /\ y.status = "active" /\ y.uses = 0 /\ y.lastUsed = NoLastUsed
    /\ y.generated \in t..(t + (minActiveCodes - 1) * Stagger)
    /\ y.expires = y.generated + rotationInterval

(* C22: rotateActiveCodes prunes, generates the deficit, retires and then  *)
(* persists.  When it completes at time now, no record with status active  *)
(* expires less than 30 minutes after now (so none that has expired is     *)
(* active: it was removed or is retiring); every record of the list is a   *)
(* record the list held, with the status it had or retired from active, or *)
(* a new active record, so that emergency and retiring records keep their  *)
(* status; and a usable storage holds the list.                            *)
C22_RotateRetiresAndKeepsStatus ==
    [][ (last'.op = "rotateActiveCodes" /\ ~last'.threw) =>
            LET old == preGeneratedCodes
                new == preGeneratedCodes'
            IN  /\ \A i \in 1..Len(new) :
                       LET y == new[i]
                       IN  CASE y.status = "active" ->
                                   /\ y.expires >= now + RetireHorizon
                                   /\ y.expires > now
                                   /\ Fresh(y, now) \/ Count(new, y) <= Count(old, y)
                             [] y.status = "retiring" ->
                                   LET was == [y EXCEPT !.status = "active"]
                                   IN  /\ Count(new, y) <= Count(old, y) + Count(old, was)
                                       /\ Count(new, y) > Count(old, y)
                                              => y.expires < now + RetireHorizon
                             [] y.status = "emergency" -> Count(new, y) <= Count(old, y)
                             [] OTHER -> FALSE
                /\ stored # Unavailable => stored' = Stringify(new)
      ]_vars

\* rotateActiveCodes has completed on a list that holds a record which has
\* expired and was used last within the grace period: the record is retiring;
\* new active records were generated
C22_Witness ==
    /\ Just("rotateActiveCodes") /\ ~last.threw
    /\ \E i \in 1..Len(preGeneratedCodes) :
           /\ preGeneratedCodes[i].status = "retiring"
           /\ preGeneratedCodes[i].expires <= now
           /\ preGeneratedCodes[i].lastUsed = now
    /\ \E i \in 1..Len(preGeneratedCodes) : Fresh(preGeneratedCodes[i], now)

\* what tells one code object from another through the calls that change its
\* uses, lastUsed and status
Identity(code) == <<code.code, code.generated, code.expires>>

\* the records of the list that are the code object y
Same(codes, y) == {i \in Records(codes) : Identity(codes[i]) = Identity(y)}

(* C23: status changes are one-way.  On every call other than importCodes  *)
(* (a call that leaves the list as it was changes no status), a record the *)
(* list holds after the call either was not in the list                    *)
(* before (it is then a new active or emergency record), or has the status *)
(* it had, or was active and is retiring; the last happens only in         *)
(* rotateActiveCodes and only to a record that expires less than 30        *)
(* minutes after now.  So no retiring or emergency record becomes active.  *)
C23_StatusOneWay ==
    [][ (last'.op # "importCodes" /\ preGeneratedCodes' # preGeneratedCodes) =>
            LET old == preGeneratedCodes
                new == preGeneratedCodes'
            IN  \A i \in Records(new) :
                    LET y == new[i]
                    IN  IF Same(old, y) = {}
                        THEN y.status \in {"active", "emergency"}
                        ELSE \E j \in Same(old, y) :
                                 \/ old[j].status = y.status
                                 \/ /\ old[j].status = "active" /\ y.status = "retiring"
                                    /\ last'.op = "rotateActiveCodes"
                                    /\ y.expires < now + RetireHorizon
      ]_vars

\* rotateActiveCodes has retired the seed record 45789, which a previous
\* session stored as active, and has left the records it generated active
C23_Witness ==
    /\ Just("rotateActiveCodes") /\ ~last.threw
    /\ \E i \in Records(preGeneratedCodes) :
           /\ preGeneratedCodes[i].code = 45789
           /\ preGeneratedCodes[i].status = "retiring"
           /\ preGeneratedCodes[i].expires < now + RetireHorizon
    /\ \E i \in Records(preGeneratedCodes) : Fresh(preGeneratedCodes[i], now)

\* the position whose uses a call of getNextCode or markCodeAsUsed may raise
\* (0: none)
Consumed(op, arg, ret, codes) ==
    IF op = "getNextCode" THEN ret.at
    ELSE IF op = "markCodeAsUsed" /\ Matching(codes, arg.code) # {}
         THEN Known(codes, arg.code)
    ELSE 0

(* C24: the uses of every record is a non-negative integer, and for a      *)
(* record that stays in the list it never decreases: getNextCode adds 1 to *)
(* the record it returns and markCodeAsUsed adds 1 to the record it        *)
(* matches, and they leave the uses of every other record as it is; every  *)
(* other call (importCodes, which replaces the list, aside) leaves the     *)
(* uses of every record that stays as it is.                               *)
C24_UsesOnlyGrowByConsumption ==
    /\ [](\A i \in Records(preGeneratedCodes) : preGeneratedCodes[i].uses \in Nat)
    /\ [][ (last'.op # "importCodes" /\ preGeneratedCodes' # preGeneratedCodes) =>
               LET old == preGeneratedCodes
                   new == preGeneratedCodes'
               IN  IF last'.op \in {"getNextCode", "markCodeAsUsed"}
                   THEN LET k == Consumed(last'.op, last'.arg, last'.ret, old)
                        IN  /\ ~last'.threw
                            /\ Len(new) >= Len(old)
                            /\ \A i \in 1..Len(old) :
                                   IF IsNull(old[i]) THEN new[i] = old[i]
                                   ELSE new[i].uses = old[i].uses + (IF i = k THEN 1 ELSE 0)
                   ELSE \A i \in Records(new) :
                            Same(old, new[i]) # {} =>
                                \E j \in Same(old, new[i]) : new[i].uses = old[j].uses
         ]_vars

\* markCodeAsUsed has raised the uses of the seed record 45789 to 2
C24_Witness ==
    /\ Just("markCodeAsUsed") /\ ~last.threw
    /\ last.arg.code = 45789
    /\ \E i \in Records(preGeneratedCodes) :
           /\ preGeneratedCodes[i].code = 45789
           /\ preGeneratedCodes[i].uses = 2
           /\ preGeneratedCodes[i].lastUsed = now

(* C25: in every reachable state every record of the list expires after it *)
(* was generated, whether it was seeded, generated, created as an          *)
(* emergency record, loaded from the storage or imported.                  *)
C25_ExpiresAfterGenerated ==
    \A i \in Records(preGeneratedCodes) :
        preGeneratedCodes[i].expires > preGeneratedCodes[i].generated

(* C26: maintainCodePool, when the number A of records that are active and *)
(* not expired is below minActiveCodes, generates exactly                  *)
(* minActiveCodes - A new active records, so that at least minActiveCodes  *)
(* records are active and not expired when it returns; otherwise it        *)
(* changes neither the list nor the stored items.  In both cases it raises *)
(* no error and the records that were in the list keep their status, uses  *)
(* and timestamps.                                                         *)
C26_MaintainGeneratesDeficit ==
    [][ last'.op = "maintainCodePool" =>
            LET old == preGeneratedCodes
                new == preGeneratedCodes'
                A == Cardinality(Eligible(old, now))
                added == {i \in 1..Len(new) : Count(old, new[i]) = 0}
            IN  /\ ~last'.threw
                /\ IF A < minActiveCodes
                   THEN /\ Cardinality(added) = minActiveCodes - A
                        /\ \A i \in added : Fresh(new[i], now)
                        /\ Cardinality(Eligible(new, now)) >= minActiveCodes
                   ELSE UNCHANGED <<preGeneratedCodes, stored, lastUpdate>>
                /\ \A i \in 1..Len(new) : i \notin added => Count(new, new[i]) <= Count(old, new[i])
      ]_vars

(* C27: the record getNextCode hands out is usable at that instant:        *)
(* validateCode of its code string, called at the same clock value right   *)
(* after getNextCode returned it, answers that the code is valid and       *)
(* reports that record, whatever else the list holds.                      *)
C27_HandedOutCodeValidates ==
    (Just("getNextCode") /\ ~last.threw) =>
        LET answer == validateCode(This, last.ret.code.code, now)
        IN  /\ ~answer.threw
            /\ answer.ret.valid
            /\ answer.ret.at = last.ret.at

(* C28: a failed importCodes leaves the manager untouched: whenever it     *)
(* returns success: false (text that is not JSON, no codes array, or an    *)
(* exception while the imported list is processed), the list and the two   *)
(* stored items are what they were before the call.                        *)
C28_FailedImportLeavesManager ==
    [][ (last'.op = "importCodes" /\ ~last'.threw /\ ~last'.ret.success) =>
            UNCHANGED <<preGeneratedCodes, stored, lastUpdate>>
      ]_vars

(* C29: with a storage that works, after every call that returns           *)
(* (construction, generateNewCodes, getNextCode, markCodeAsUsed,           *)
(* cleanExpiredCodes, trimCodeList, rotateActiveCodes, maintainCodePool,   *)
(* importCodes, resetCodes) the stored snapshot is the list in memory; in  *)
(* particular trimCodeList stores the list when it truncates.              *)
C29_StoredSnapshotIsList ==
    (stored # Unavailable /\ ~last.threw) => stored = Stringify(preGeneratedCodes)

(* C30: in generateViaIframe the frame and the form are removed from the   *)
(* document exactly once and the promise settles exactly once, whichever   *)
(* of the load callback and the timeout runs first and also when both run: *)
(* no callback calls removeChild on a node that was removed, so no         *)
(* exception leaves a callback.                                            *)
C30_IframeCleanedUpOnce ==
    \A k \in Calls :
        LET c == downloads[k]
        IN  /\ c.removeChildCalls.iframe <= 1
            /\ c.removeChildCalls.form <= 1
            /\ c.settleCalls <= 1
            /\ c.uncaught = 0
            /\ c.promise \in {"fulfilled", "rejected"} =>
                   /\ c.body = {}
                   /\ c.removeChildCalls = [iframe |-> 1, form |-> 1]
                   /\ c.settleCalls = 1

====
